---- MODULE Spec2Model ----
\* Model of the zk-shell command loop (src/src/shell.rs, src/src/main.rs):
\* the Shell state, the read/dispatch loop of Shell::run and one action per
\* command handler.  The ZooKeeper client is an opaque collaborator: every
\* call into it is recorded and its result is chosen nondeterministically.
EXTENDS Integers, Sequences, FiniteSets, TLC

\* ---------------------------------------------------------------- bounds
\* Longest argument vector typed on one line (create takes at most 4).
MaxArgs == 5
\* Number of sessions the client hands out before connect only fails.
MaxSessions == 3
\* Number of watch notifications delivered to the event sink.
MaxEvents == 1

\* ------------------------------------------------------------- constants
\* Option<ZooKeeper>::None
None == 0
\* Shell::new: session_timeout
SessionTimeout == 5
\* Shell::new: default_acl
OpenAclUnsafe == "OPEN_ACL_UNSAFE"

\* ---------------------------------------------------------------- inputs
\* Values of the --hosts option ("" when the option is absent).
StartHosts == {"", "h1"}
\* First token after the command name: a path, a hosts string, a help topic.
Firsts == {"/a", "h2"}
\* Second token: data, a watch flag, a version.
Seconds == {"true"}
\* Any further token.
Others == {"TRUE"}

TokensAt(i) == IF i = 1 THEN Firsts ELSE IF i = 2 THEN Seconds ELSE Others

ArgVectors ==
    UNION { { a \in [1..n -> Firsts \cup Seconds \cup Others] :
                \A i \in 1..n : a[i] \in TokensAt(i) } : n \in 0..MaxArgs }

\* Texts typed for a watch flag of get, ls and exists.
WatchTexts == {"true", "TRUE", "True", "false", "yes", "1"}
\* Texts typed for the ephemeral and sequential flags of create.
CreateFlagTexts == {"true", "TRUE", "false", "x"}
\* Texts typed for the version of set and rm; the last one does not fit i32.
VersionTexts == {"3", "0", "-1", "abc", "-", "2147483648"}

\* Lines of get, ls and exists inside their window.
WatchArgs == {<<"/a">>} \cup {<<"/a", w>> : w \in WatchTexts}
\* Lines of set inside its window.
SetArgs == {<<"/a", "x">>} \cup {<<"/a", "x", v>> : v \in VersionTexts}
\* Lines of rm inside its window.
RmArgs == {<<"/a">>} \cup {<<"/a", v>> : v \in VersionTexts}
\* Lines of create inside its window.
CreateArgs ==
    {<<"/a", "x">>} \cup {<<"/a", "x", e>> : e \in CreateFlagTexts}
        \cup {<<"/a", "x", e, q>> : e \in CreateFlagTexts, q \in CreateFlagTexts}

\* ZkError values a node operation can return (Debug names).
ZkErrors == {"NoNode", "NotEmpty", "BadVersion", "SessionExpired", "ConnectionLoss"}
\* ZkError values ZooKeeper::connect can return.
ConnectErrors == {"ConnectionLoss"}
\* Results of ZooKeeper::close.
CloseResults == {"Ok", "ConnectionLoss"}
\* Payloads ZooKeeper::get_data can return; InvalidUtf8 stands for bytes
\* that are not valid UTF-8.
InvalidUtf8 == "<ff>"
Payloads == {"v1", InvalidUtf8}
\* Child list ZooKeeper::get_children returns.
ChildLists == {<<"x", "y">>}
\* Debug rendering of the Stat ZooKeeper::exists returns.
StatDebug == "Stat"

VARIABLES
    pc,             \* "start" (Shell::new done), "prompt" (top of the loop),
                    \* "read" (prompt written, in read_line), "panicked";
                    \* "connecting" / "closing" while ZooKeeper::connect /
                    \* close is in flight, where the steps are told apart
    hosts,          \* Shell.hosts
    zk,             \* Shell.zk: None or the session handle
    session_timeout,\* Shell.session_timeout
    default_acl,    \* Shell.default_acl
    nextSid,        \* handle the next successful ZooKeeper::connect returns
    closeCount,     \* per session handle: number of close calls made on it
    eof,            \* stdin has reached end-of-file
    last,           \* the line dispatched last: [name, args]
    preZk,          \* Shell.zk when that line was dispatched
    calls,          \* client calls made for that line, in order, each with its result
    out,            \* lines printed for that line
    watchOut        \* events printed by MyWatcher::handle

vars == <<pc, hosts, zk, session_timeout, default_acl, nextSid, closeCount,
          eof, last, preZk, calls, out, watchOut>>

shellFields == <<hosts, session_timeout, default_acl>>

\* --------------------------------------------------------- client calls
Call(op, sid, target) ==
    [op |-> op, sid |-> sid, target |-> target, watch |-> FALSE,
     version |-> -1, mode |-> "", data |-> "", acl |-> "", timeout |-> 0,
     ret |-> "Ok", payload |-> "", children |-> <<>>]

Opened == 1..(nextSid - 1)
Closed == {s \in Opened : closeCount[s] > 0}
Live == Opened \ Closed

\* ------------------------------------------------------------- macros
\* check_args!: TRUE when the handler goes on.
CheckArgs(args, min, max) == ~(Len(args) < min \/ Len(args) > max)

ArityError(params) ==
    "Wrong number of arguments, expected parameters: " \o params

NotConnected == "Not connected."

\* str::to_lowercase on the tokens of the model.
ToLowercase(s) ==
    CASE s = "TRUE" -> "true"
      [] s = "True" -> "true"
      [] OTHER -> s

\* str::parse::<i32>: [ok, value].
ParseI32(s) ==
    CASE s = "3" -> [ok |-> TRUE, value |-> 3]
      [] s = "0" -> [ok |-> TRUE, value |-> 0]
      [] s = "-1" -> [ok |-> TRUE, value |-> -1]
      [] OTHER -> [ok |-> FALSE, value |-> 0]

\* report_error without the NotEmpty arm.
ReportErrorNoNotEmpty(error, path) ==
    CASE error = "NoNode" -> "Path " \o path \o " does not exist."
      [] OTHER -> "Unknown error: " \o error

\* report_error
ReportError(error, path) ==
    CASE error = "NoNode" -> "Path " \o path \o " does not exist."
      [] error = "NotEmpty" -> "Path " \o path \o " is not empty."
      [] OTHER -> "Unknown error: " \o error

\* ------------------------------------------------------------ the shell
Init ==
    /\ pc = "start"
    /\ hosts \in StartHosts
    /\ zk = None
    /\ session_timeout = SessionTimeout
    /\ default_acl = OpenAclUnsafe
    /\ nextSid = 1
    /\ closeCount = [s \in 1..MaxSessions |-> 0]
    /\ eof = FALSE
    /\ last = [name |-> "", args |-> <<>>]
    /\ preZk = None
    /\ calls = <<>>
    /\ out = <<>>
    /\ watchOut = 0

\* ------------------------------------------------------ handler outcomes
\* The client hands out a fresh session handle on every successful connect.
NextSidAfter(cs) ==
    nextSid + Cardinality({i \in 1..Len(cs) : cs[i].op = "connect" /\ cs[i].ret = "Ok"})

\* Every close call is counted on the handle it was made on.
CloseCountAfter(cs) ==
    [s \in DOMAIN closeCount |->
        closeCount[s] + Cardinality({i \in 1..Len(cs) : cs[i].op = "close" /\ cs[i].sid = s})]

\* The part of the state a handler writes: the dispatched line, what it
\* printed, the calls it made, Shell.zk, where control goes and Shell.hosts.
FinishH(nm, args, o, cs, z, p, h) ==
    /\ last' = [name |-> nm, args |-> args]
    /\ preZk' = zk
    /\ out' = o
    /\ calls' = cs
    /\ zk' = z
    /\ pc' = p
    /\ hosts' = h
    /\ nextSid' = NextSidAfter(cs)
    /\ closeCount' = CloseCountAfter(cs)
    /\ UNCHANGED <<session_timeout, default_acl, eof, watchOut>>

\* A handler that does not assign Shell.hosts.
Finish(nm, args, o, cs, z, p) == FinishH(nm, args, o, cs, z, p, hosts)

\* A handler that returns after printing one line, without a client call.
Local(nm, args, line) ==
    /\ Finish(nm, args, <<line>>, <<>>, zk, "prompt")

\* fetch_zk! that hands out the handle without looking at it.
FetchZkUnchecked(z) == TRUE

\* fetch_zk!: TRUE when Shell.zk is Some.
FetchZk(z) == z # None

\* A node handler that drops the session on a connection-level error.
RemoteDroppingSession(nm, args, c, okOut) ==
    Finish(nm, args,
           IF c.ret = "Ok" THEN okOut ELSE <<ReportError(c.ret, args[1])>>,
           <<c>>,
           IF c.ret \in {"SessionExpired", "ConnectionLoss"} THEN None ELSE zk,
           "prompt")

\* A node handler after its one client call c: Ok prints okOut, Err goes
\* through report_error with the first argument.
Remote(nm, args, c, okOut) ==
    /\ Finish(nm, args,
              IF c.ret = "Ok" THEN okOut ELSE <<ReportError(c.ret, args[1])>>,
              <<c>>, zk, "prompt")

\* read_line returns with a line: stdin is not at end-of-file.
AtPrompt == pc = "read" /\ ~eof

\* str::from_utf8(..).is_ok()
FromUtf8Ok(bytes) == bytes # InvalidUtf8

RECURSIVE Join(_, _)
\* [String]::join
Join(seq, sep) ==
    IF Len(seq) = 0 THEN ""
    ELSE IF Len(seq) = 1 THEN seq[1]
    ELSE seq[1] \o sep \o Join(Tail(seq), sep)

\* The watch flag compared without to_lowercase.
WatchFlagCaseSensitive(args) ==
    IF Len(args) = 1 THEN FALSE ELSE args[2] = "true"

\* The watch flag of get, ls and exists.
WatchFlag(args) ==
    IF Len(args) = 1 THEN FALSE ELSE ToLowercase(args[2]) = "true"

\* The expected version with 0 in place of -1 when the text does not parse.
VersionArgZeroOnError(args, i) ==
    IF Len(args) = i
    THEN (IF ParseI32(args[i]).ok THEN ParseI32(args[i]).value ELSE 0)
    ELSE -1

\* The expected version of set (i = 3) and rm (i = 2).
VersionArg(args, i) ==
    IF Len(args) = i
    THEN (IF ParseI32(args[i]).ok THEN ParseI32(args[i]).value ELSE -1)
    ELSE -1

\* The CreateMode with a sequential flag that forgets the ephemeral one.
CreateModeSequentialOnly(args) ==
    LET m1 == IF Len(args) >= 3 /\ ToLowercase(args[3]) = "true"
              THEN "Ephemeral" ELSE "Persistent"
    IN IF Len(args) = 4 /\ ToLowercase(args[4]) = "true"
       THEN "PersistentSequential"
       ELSE m1

\* The CreateMode of create.
CreateModeOf(args) ==
    LET m1 == IF Len(args) >= 3 /\ ToLowercase(args[3]) = "true"
              THEN "Ephemeral" ELSE "Persistent"
    IN IF Len(args) = 4 /\ ToLowercase(args[4]) = "true"
       THEN (IF m1 = "Ephemeral" THEN "EphemeralSequential"
                                 ELSE "PersistentSequential")
       ELSE m1

\* ------------------------------------------------------ node handlers
Get(args) ==
    /\ AtPrompt
    /\ IF ~CheckArgs(args, 1, 2) THEN Local("get", args, ArityError("<path> [watch]"))
       ELSE IF ~FetchZk(zk) THEN Local("get", args, NotConnected)
       ELSE \E r \in {"Ok"} \cup ZkErrors : \E b \in Payloads :
              LET c == [Call("get_data", zk, args[1]) EXCEPT
                          !.watch = WatchFlag(args), !.ret = r,
                          !.payload = IF r = "Ok" THEN b ELSE ""]
              IN IF r = "Ok" /\ ~FromUtf8Ok(b)
                 THEN \* unwrap() on the Err of from_utf8 panics
                      Finish("get", args, <<>>, <<c>>, zk, "panicked")
                 ELSE Remote("get", args, c, <<b>>)

Set(args) ==
    /\ AtPrompt
    /\ IF ~CheckArgs(args, 2, 3) THEN Local("set", args, ArityError("<path> <data> [version]"))
       ELSE IF ~FetchZk(zk) THEN Local("set", args, NotConnected)
       ELSE \E r \in {"Ok"} \cup ZkErrors :
              LET c == [Call("set_data", zk, args[1]) EXCEPT
                          !.data = args[2], !.version = VersionArg(args, 3), !.ret = r]
              IN Remote("set", args, c, <<>>)

Ls(args) ==
    /\ AtPrompt
    /\ IF ~CheckArgs(args, 1, 2) THEN Local("ls", args, ArityError("<path> [watch]"))
       ELSE IF ~FetchZk(zk) THEN Local("ls", args, NotConnected)
       ELSE \E r \in {"Ok"} \cup ZkErrors : \E ch \in ChildLists :
              LET c == [Call("get_children", zk, args[1]) EXCEPT
                          !.watch = WatchFlag(args), !.ret = r,
                          !.children = IF r = "Ok" THEN ch ELSE <<>>]
              IN Remote("ls", args, c, <<Join(ch, " ")>>)

\* Shell::create with fetch_zk! ahead of check_args!.
CreateFetchFirst(args) ==
    /\ AtPrompt
    /\ IF ~FetchZk(zk) THEN Local("create", args, NotConnected)
       ELSE IF ~CheckArgs(args, 2, 4)
       THEN Local("create", args, ArityError("<path> <data> [ephemeral] [sequential]"))
       ELSE \E r \in {"Ok"} \cup ZkErrors :
              LET c == [Call("create", zk, args[1]) EXCEPT
                          !.data = args[2], !.acl = default_acl,
                          !.mode = CreateModeOf(args), !.ret = r]
              IN Remote("create", args, c, <<>>)

Create(args) ==
    /\ AtPrompt
    /\ IF ~CheckArgs(args, 2, 4)
       THEN Local("create", args, ArityError("<path> <data> [ephemeral] [sequential]"))
       ELSE IF ~FetchZk(zk) THEN Local("create", args, NotConnected)
       ELSE \E r \in {"Ok"} \cup ZkErrors :
              LET c == [Call("create", zk, args[1]) EXCEPT
                          !.data = args[2], !.acl = default_acl,
                          !.mode = CreateModeOf(args), !.ret = r]
              IN Remote("create", args, c, <<>>)

Rm(args) ==
    /\ AtPrompt
    /\ IF ~CheckArgs(args, 1, 2) THEN Local("rm", args, ArityError("<path> [version]"))
       ELSE IF ~FetchZk(zk) THEN Local("rm", args, NotConnected)
       ELSE \E r \in {"Ok"} \cup ZkErrors :
              LET c == [Call("delete", zk, args[1]) EXCEPT
                          !.version = VersionArg(args, 2), !.ret = r]
              IN Remote("rm", args, c, <<>>)

Exists(args) ==
    /\ AtPrompt
    /\ IF ~CheckArgs(args, 1, 2) THEN Local("exists", args, ArityError("<path> [watch]"))
       ELSE IF ~FetchZk(zk) THEN Local("exists", args, NotConnected)
       ELSE \E r \in {"Ok"} \cup ZkErrors :
              LET c == [Call("exists", zk, args[1]) EXCEPT
                          !.watch = WatchFlag(args), !.ret = r]
              IN Remote("exists", args, c, <<StatDebug>>)

\* -------------------------------------------------- connection handlers
\* The close call made on session z, with the result the client gives.
CloseCall(z, r) == [Call("close", z, "") EXCEPT !.ret = r]

\* ZooKeeper::connect(hosts, timeout, MyWatcher) with its result.
ConnectCall(h, r) ==
    [Call("connect", None, h) EXCEPT !.timeout = session_timeout, !.ret = r]

\* Shell.zk after the match of connect_to: z is Shell.zk before the call,
\* r the result of ZooKeeper::connect.
ZkAfterConnectTo(z, r) == IF r = "Ok" THEN nextSid ELSE z

\* What connect_to prints.
ConnectToOut(h, r) ==
    IF r = "Ok" THEN <<"Connecting to " \o h \o "...">>
    ELSE <<"Connecting to " \o h \o "...", r>>

\* Results ZooKeeper::connect can give in this state.
ConnectResults ==
    (IF nextSid <= MaxSessions THEN {"Ok"} ELSE {}) \cup ConnectErrors

\* Shell::connect that opens the new session without closing the old one.
ConnectNoClose(z, r) == <<>>

\* The close calls Shell::connect makes before connect_to.
ConnectCloseCalls(z, r) == IF z # None THEN <<CloseCall(z, r)>> ELSE <<>>

\* Shell::connect that opens the new session before closing the old one.
ConnectOpenThenClose(z, rc, h, r) == <<ConnectCall(h, r)>> \o ConnectCloseCalls(z, rc)

\* Client calls of Shell::connect in the order they are made.
ConnectCalls(z, rc, h, r) == ConnectCloseCalls(z, rc) \o <<ConnectCall(h, r)>>

\* Shell::connect without the self.zk = None.
ZkKeptBeforeConnectTo(z) == z

\* Shell.zk when Shell::connect calls connect_to (self.zk = None).
ZkBeforeConnectTo(z) == None

\* Shell::disconnect that keeps the handle when close reports an error.
ZkKeptOnCloseError(z, r) == IF r = "Ok" THEN None ELSE z

\* Shell.zk after Shell::disconnect has made its close call with result r.
ZkAfterDisconnect(z, r) == None

\* Shell.hosts set to the target of the connect.
HostsSetByConnect(h) == h

\* Shell.hosts after Shell::connect to h: neither connect nor connect_to
\* assigns the field.
HostsAfterConnect(h) == hosts

\* Shell::disconnect; the dispatcher passes it no arguments, whatever the
\* line holds.
Disconnect(args) ==
    /\ AtPrompt
    /\ IF ~FetchZk(zk) THEN Local("disconnect", args, NotConnected)
       ELSE \E r \in CloseResults :
              /\ Finish("disconnect", args, <<>>, <<CloseCall(zk, r)>>,
                        ZkAfterDisconnect(zk, r), "prompt")

\* Shell::connect
Connect(args) ==
    /\ AtPrompt
    /\ IF ~CheckArgs(args, 1, 1) THEN Local("connect", args, ArityError("<hosts>"))
       ELSE \E rc \in CloseResults : \E r \in ConnectResults :
              /\ zk = None => rc = "Ok"
              /\ FinishH("connect", args, ConnectToOut(args[1], r),
                         ConnectCalls(zk, rc, args[1], r),
                         ZkAfterConnectTo(ZkBeforeConnectTo(zk), r), "prompt",
                         HostsAfterConnect(args[1]))

\* The head of Shell::run with a second connect attempt after a failure.
RunStartRetrying ==
    /\ pc = "start"
    /\ IF hosts # ""
       THEN \E r \in ConnectResults : \E r2 \in ConnectResults :
              Finish("<startup>", <<>>, ConnectToOut(hosts, r),
                     IF r = "Ok" THEN <<ConnectCall(hosts, r)>>
                     ELSE <<ConnectCall(hosts, r), ConnectCall(hosts, r2)>>,
                     ZkAfterConnectTo(zk, IF r = "Ok" THEN r ELSE r2), "prompt")
       ELSE Finish("<startup>", <<>>, <<>>, <<>>, zk, "prompt")

\* The head of Shell::run: the startup connect when hosts is not empty.
RunStart ==
    /\ pc = "start"
    /\ IF hosts # ""
       THEN \E r \in ConnectResults :
              /\ Finish("<startup>", <<>>, ConnectToOut(hosts, r),
                        <<ConnectCall(hosts, r)>>, ZkAfterConnectTo(zk, r), "prompt")
       ELSE /\ Finish("<startup>", <<>>, <<>>, <<>>, zk, "prompt")
        
\* ------------------------------------------------------------------ help
\* Keys of HELP in sorted order.
HelpKeys == <<"connect", "create", "disconnect", "exists", "get", "ls", "rm", "set">>

HelpKeySet == {HelpKeys[i] : i \in 1..Len(HelpKeys)}

\* HELP: name -> [desc, synopsis]
HELP(name) ==
    CASE name = "get" -> [desc |-> "Gets the znode's value", synopsis |-> "<path> [watch]"]
      [] name = "set" -> [desc |-> "Sets the znode's value", synopsis |-> "<path> <data> [version]"]
      [] name = "ls" -> [desc |-> "Lists a znode's children", synopsis |-> "<path> [watch]"]
      [] name = "create" -> [desc |-> "Creates a znode with the given value",
                             synopsis |-> "<path> <data> [ephemeral] [sequential]"]
      [] name = "rm" -> [desc |-> "Delete a znode", synopsis |-> "<path> [version]"]
      [] name = "exists" -> [desc |-> "Gets the znode's stat information", synopsis |-> "<path> [watch]"]
      [] name = "disconnect" -> [desc |-> "Disconnects from the server (closing the session)",
                                 synopsis |-> ""]
      [] name = "connect" -> [desc |-> "Connects to one of the given hosts, creating a session",
                              synopsis |-> "<hosts>"]

\* help_all: one line per key.
HelpAll == [i \in 1..Len(HelpKeys) |-> HelpKeys[i] \o " - " \o HELP(HelpKeys[i]).synopsis]

\* help_full: the lines of CmdHelp::full, or the unknown-command line.
HelpFull(cmd) ==
    IF cmd \in HelpKeySet
    THEN <<"NAME", cmd \o " - " \o HELP(cmd).desc, "",
           "SYNOPSIS", cmd \o " " \o HELP(cmd).synopsis, "",
           "OPTIONS", "", "", "EXAMPLES", "", "">>
    ELSE <<"Unknown command: " \o cmd \o ".">>

\* Shell::help, reached by both help and man.
Help(nm, args) ==
    /\ AtPrompt
    /\ nm \in {"help", "man"}
    /\ IF ~CheckArgs(args, 0, 1) THEN Local(nm, args, ArityError("[cmd]"))
       ELSE /\ Finish(nm, args, IF Len(args) = 1 THEN HelpFull(args[1]) ELSE HelpAll,
                      <<>>, zk, "prompt")
        
\* --------------------------------------------------------- the read loop
\* Names the dispatcher does not know.
UnknownNames == {"foo"}

\* The fall-through arm printing the line of help_full.
UnknownWithDot(nm, args) ==
    /\ AtPrompt
    /\ nm \in UnknownNames
    /\ Local(nm, args, "Unknown command: " \o nm \o ".")

\* The fall-through arm of the dispatch.
Unknown(nm, args) ==
    /\ AtPrompt
    /\ nm \in UnknownNames
    /\ Local(nm, args, "Unknown command: " \o nm)

\* A line with no tokens: continue.
EmptyLine ==
    /\ AtPrompt
    /\ Finish("<empty>", <<>>, <<>>, <<>>, zk, "prompt")

\* The top of the loop: the prompt is written and flushed, read_line is
\* entered.
Prompt ==
    /\ pc = "prompt"
    /\ pc' = "read"
    /\ UNCHANGED <<zk, shellFields, nextSid, closeCount, eof, last, preZk, calls, out, watchOut>>

\* read_line returns Ok(0) at end-of-file: the line stays empty, pieces is
\* empty, continue.
ReadEof ==
    /\ pc = "read"
    /\ eof' = TRUE
    /\ pc' = "prompt"
    /\ last' = [name |-> "<eof>", args |-> <<>>]
    /\ preZk' = zk
    /\ out' = <<>>
    /\ calls' = <<>>
    /\ UNCHANGED <<zk, shellFields, nextSid, closeCount, watchOut>>

\* read_line returns Err (the line is not valid UTF-8): expect panics.
ReadFail ==
    /\ AtPrompt
    /\ Finish("<unreadable>", <<>>, <<>>, <<>>, zk, "panicked")

Next ==
    \/ RunStart
    \/ \E args \in ArgVectors : Get(args)
    \/ \E args \in ArgVectors : Set(args)
    \/ \E args \in ArgVectors : Ls(args)
    \/ \E args \in ArgVectors : Create(args)
    \/ \E args \in ArgVectors : Rm(args)
    \/ \E args \in ArgVectors : Exists(args)
    \/ \E args \in ArgVectors : Disconnect(args)
    \/ \E args \in ArgVectors : Connect(args)
    \/ \E nm \in {"help", "man"} : \E args \in ArgVectors : Help(nm, args)
    \/ \E nm \in UnknownNames : \E args \in ArgVectors : Unknown(nm, args)
    \/ Prompt
    \/ EmptyLine
    \/ ReadEof
    \/ ReadFail

Spec == Init /\ [][Next]_vars

\* The loop never waits once a read has returned: every enabled step of the
\* single control thread is eventually taken.
FairSpec == Spec /\ WF_vars(Next)

\* ------------------------------------------- the event sink and the loop
\* Shell::connect up to the call of ZooKeeper::connect: the arity check,
\* the close of the stored session, self.zk = None.
ConnectBegin(args) ==
    /\ AtPrompt
    /\ IF ~CheckArgs(args, 1, 1) THEN Local("connect", args, ArityError("<hosts>"))
       ELSE \E rc \in CloseResults :
              /\ zk = None => rc = "Ok"
              /\ Finish("connect", args, <<>>, ConnectCloseCalls(zk, rc),
                        ZkBeforeConnectTo(zk), "connecting")

\* ZooKeeper::connect returns and connect_to stores or prints its result.
ConnectEnd ==
    /\ pc = "connecting"
    /\ \E r \in ConnectResults :
          /\ calls' = Append(calls, ConnectCall(last.args[1], r))
          /\ out' = ConnectToOut(last.args[1], r)
          /\ zk' = ZkAfterConnectTo(zk, r)
          /\ nextSid' = NextSidAfter(<<ConnectCall(last.args[1], r)>>)
          /\ hosts' = HostsAfterConnect(last.args[1])
    /\ pc' = "prompt"
    /\ UNCHANGED <<session_timeout, default_acl, closeCount, eof, last, preZk, watchOut>>

\* Shell::disconnect up to the call of close.
DisconnectBegin(args) ==
    /\ AtPrompt
    /\ IF ~FetchZk(zk) THEN Local("disconnect", args, NotConnected)
       ELSE Finish("disconnect", args, <<>>, <<>>, zk, "closing")

\* close returns and Shell::disconnect clears the handle.
DisconnectEnd ==
    /\ pc = "closing"
    /\ \E r \in CloseResults :
          /\ calls' = <<CloseCall(zk, r)>>
          /\ closeCount' = CloseCountAfter(<<CloseCall(zk, r)>>)
          /\ zk' = ZkAfterDisconnect(zk, r)
    /\ pc' = "prompt"
    /\ UNCHANGED <<shellFields, nextSid, eof, last, preZk, out, watchOut>>

\* A client exists to deliver events: a session was opened before, or a
\* connect is in flight.
ClientRunning == nextSid > 1 \/ pc = "connecting"

\* MyWatcher::handle that drops the session when it is told of an event.
WatchEventDroppingSession ==
    /\ pc \in {"prompt", "read", "connecting", "closing"}
    /\ ClientRunning
    /\ watchOut < MaxEvents
    /\ watchOut' = watchOut + 1
    /\ zk' = None
    /\ UNCHANGED <<pc, shellFields, nextSid, closeCount, eof, last, preZk, calls, out>>

\* MyWatcher::handle, run by the client on its own thread: prints the event.
WatchEvent ==
    /\ pc \in {"prompt", "read", "connecting", "closing"}
    /\ ClientRunning
    /\ watchOut < MaxEvents
    /\ watchOut' = watchOut + 1
    /\ UNCHANGED <<pc, zk, shellFields, nextSid, closeCount, eof, last, preZk, calls, out>>

\* The loop with connect and disconnect told apart at their client calls,
\* and the event sink running beside it.
WatchNext ==
    \/ RunStart
    \/ \E args \in ArgVectors : Get(args)
    \/ \E args \in ArgVectors : Set(args)
    \/ \E args \in ArgVectors : Ls(args)
    \/ \E args \in ArgVectors : Create(args)
    \/ \E args \in ArgVectors : Rm(args)
    \/ \E args \in ArgVectors : Exists(args)
    \/ \E args \in ArgVectors : DisconnectBegin(args)
    \/ DisconnectEnd
    \/ \E args \in ArgVectors : ConnectBegin(args)
    \/ ConnectEnd
    \/ \E nm \in {"help", "man"} : \E args \in ArgVectors : Help(nm, args)
    \/ \E nm \in UnknownNames : \E args \in ArgVectors : Unknown(nm, args)
    \/ Prompt
    \/ EmptyLine
    \/ ReadEof
    \/ ReadFail
    \/ WatchEvent

WatchSpec == Init /\ [][WatchNext]_vars

\* The shell fed with node commands inside their arity windows, over the
\* texts typed for flags and versions.
ArgNext ==
    \/ RunStart
    \/ Prompt
    \/ \E args \in WatchArgs : Get(args)
    \/ \E args \in WatchArgs : Ls(args)
    \/ \E args \in WatchArgs : Exists(args)
    \/ \E args \in SetArgs : Set(args)
    \/ \E args \in RmArgs : Rm(args)
    \/ \E args \in CreateArgs : Create(args)

ArgSpec == Init /\ [][ArgNext]_vars

TypeOK ==
    /\ pc \in {"start", "prompt", "read", "panicked", "connecting", "closing"}
    /\ watchOut \in 0..MaxEvents
    /\ hosts \in StartHosts
    /\ zk \in 0..MaxSessions
    /\ nextSid \in 1..(MaxSessions + 1)
    /\ eof \in BOOLEAN

\* ================================================================ claims
NodeCmds == {"get", "set", "ls", "create", "rm", "exists"}

\* Control is in the read loop: at its top or waiting in read_line.
InLoop == pc \in {"prompt", "read"}

\* The arity table of the specification: name -> [min, max, params].
ArityTable(name) ==
    CASE name = "get" -> [min |-> 1, max |-> 2, params |-> "<path> [watch]"]
      [] name = "set" -> [min |-> 2, max |-> 3, params |-> "<path> <data> [version]"]
      [] name = "ls" -> [min |-> 1, max |-> 2, params |-> "<path> [watch]"]
      [] name = "create" -> [min |-> 2, max |-> 4,
                             params |-> "<path> <data> [ephemeral] [sequential]"]
      [] name = "rm" -> [min |-> 1, max |-> 2, params |-> "<path> [version]"]
      [] name = "exists" -> [min |-> 1, max |-> 2, params |-> "<path> [watch]"]
      [] name = "connect" -> [min |-> 1, max |-> 1, params |-> "<hosts>"]
      [] name = "disconnect" -> [min |-> 0, max |-> 0, params |-> ""]
      [] name = "help" -> [min |-> 0, max |-> 1, params |-> "[cmd]"]
      [] name = "man" -> [min |-> 0, max |-> 1, params |-> "[cmd]"]

Commands == NodeCmds \cup {"connect", "disconnect", "help", "man"}

\* The last line was a command of the table with an argument count inside
\* (outside) its window.
InWindow ==
    /\ last.name \in Commands
    /\ Len(last.args) >= ArityTable(last.name).min
    /\ Len(last.args) <= ArityTable(last.name).max

OutOfWindow ==
    /\ last.name \in Commands
    /\ ~(/\ Len(last.args) >= ArityTable(last.name).min
         /\ Len(last.args) <= ArityTable(last.name).max)

\* Indices of the calls of the last line with the given operation.
CallsOf(op) == {i \in 1..Len(calls) : calls[i].op = op}

\* The last line was a node command whose client call returned an error.
NodeCallFailed ==
    /\ last.name \in NodeCmds
    /\ Len(calls) = 1
    /\ calls[1].ret # "Ok"

\* C1: a node command with an argument count inside its window, run while no
\* Session is stored, prints exactly "Not connected.", makes no client call
\* and leaves the stored Session empty.
C1_NotConnectedIsLocal ==
    (last.name \in NodeCmds /\ InWindow /\ preZk = None)
        => /\ out = <<"Not connected.">>
           /\ calls = <<>>
           /\ zk = None
           /\ InLoop

\* C1 witness: get /a refused after a session had been opened and given up.
C1_Witness ==
    /\ last = [name |-> "get", args |-> <<"/a">>]
    /\ preZk = None
    /\ nextSid > 1
    /\ out = <<"Not connected.">>

\* C2: every command of the arity table, given an argument count outside
\* its window, prints the arity error with its parameter string, makes no
\* client call (no close either) and leaves the stored Session unchanged.
C2_ArityErrorIsLocal ==
    OutOfWindow
        => /\ out = <<"Wrong number of arguments, expected parameters: "
                        \o ArityTable(last.name).params>>
           /\ calls = <<>>
           /\ zk = preZk

\* C3: connect issued while a Session is stored calls close on that session
\* first and the client connect for the new hosts second, whatever close
\* returns.
C3_CloseThenOpen ==
    (last.name = "connect" /\ InWindow /\ preZk # None)
        => /\ Len(calls) = 2
           /\ calls[1].op = "close"
           /\ calls[1].sid = preZk
           /\ calls[2].op = "connect"
           /\ calls[2].target = last.args[1]

\* C3 witness: a reconnect to h2 whose close call reported an error.
C3_Witness ==
    /\ last = [name |-> "connect", args |-> <<"h2">>]
    /\ preZk # None
    /\ Len(calls) = 2
    /\ calls[1].op = "close"
    /\ calls[1].ret # "Ok"
    /\ calls[2].op = "connect"

\* C4: the sessions opened through the client and not yet closed are at
\* most one, and there is one exactly when the stored Session is non-empty.
C4_AtMostOneLive ==
    /\ Cardinality(Live) <= 1
    /\ (Cardinality(Live) = 1) <=> (zk # None)
    /\ zk # None => Live = {zk}

\* C4 witness: a second session is stored after the first was replaced.
C4_Witness ==
    /\ zk = 2
    /\ last.name = "connect"
    /\ preZk = 1
    /\ Live = {2}

\* C5: when the client connect call fails, for connect and for the startup
\* connect, the stored Session is empty afterwards, the error is printed
\* and exactly one client connect call was made.
C5_FailedConnectClears ==
    (/\ last.name \in {"connect", "<startup>"}
     /\ \E i \in CallsOf("connect") : calls[i].ret # "Ok")
        => /\ zk = None
           /\ Cardinality(CallsOf("connect")) = 1
           /\ Len(out) = 2
           /\ \E i \in CallsOf("connect") : out[2] = calls[i].ret

\* C5 witness: a connect that failed while a Session was stored.
C5_Witness ==
    /\ last.name = "connect"
    /\ preZk # None
    /\ zk = None
    /\ \E i \in CallsOf("connect") : calls[i].ret = "ConnectionLoss"

\* C6: disconnect with no stored Session prints "Not connected." and makes
\* no close call; with a stored Session it makes exactly one close call, on
\* that session, and the stored Session is empty afterwards whatever the
\* close call returns.
C6_Disconnect ==
    (last.name = "disconnect")
        => IF preZk = None
           THEN out = <<"Not connected.">> /\ calls = <<>> /\ zk = None
           ELSE /\ Len(calls) = 1
                /\ calls[1].op = "close"
                /\ calls[1].sid = preZk
                /\ zk = None

\* C6 witness: a disconnect whose close call reported an error.
C6_Witness ==
    /\ last = [name |-> "disconnect", args |-> <<>>]
    /\ preZk # None
    /\ Len(calls) = 1
    /\ calls[1].ret = "ConnectionLoss"
    /\ zk = None

\* C7: no failure of a command terminates the shell: after a command of the
\* table, or an unknown one, control is back at the prompt, and a node
\* command that failed left the stored Session unchanged.
C7_NoFailureTerminates ==
    (last.name \in Commands \cup UnknownNames)
        => /\ InLoop
           /\ (last.name \in NodeCmds => zk = preZk)

\* C8: once a read has returned zero bytes the shell eventually stops
\* prompting and reading: control leaves the loop.
C8_LoopExitsOnEof == eof ~> ~InLoop

\* C9 as stated: after a node operation returned session-expired or
\* connection-loss the stored Session is empty.
C9_ConnectionErrorDropsSession ==
    (NodeCallFailed /\ calls[1].ret \in {"SessionExpired", "ConnectionLoss"})
        => zk = None

\* C9 amended: a node operation that returned an error, session-expired and
\* connection-loss included, leaves the stored Session as it was.
C9_ConnectionErrorKeepsSession ==
    NodeCallFailed => (zk = preZk /\ zk # None /\ zk = calls[1].sid)

\* C9 witness: ls /a answered with SessionExpired, the Session still stored.
C9_Witness ==
    /\ last = [name |-> "ls", args |-> <<"/a">>]
    /\ Len(calls) = 1
    /\ calls[1].ret = "SessionExpired"
    /\ zk # None

\* The line the specification gives for a failure code and a path.
C10_Line(code, path) ==
    IF code = "NoNode" THEN "Path " \o path \o " does not exist."
    ELSE IF code = "NotEmpty" THEN "Path " \o path \o " is not empty."
    ELSE "Unknown error: " \o code

\* C10: a node operation that returns a failure code prints exactly one
\* line: the does-not-exist line for NoNode, the not-empty line for NotEmpty,
\* the unknown-error line with the raw code otherwise, with the first
\* argument as the path; exists goes through the same mapping.
C10_ErrorMapping ==
    NodeCallFailed => out = <<C10_Line(calls[1].ret, last.args[1])>>

\* C10 witness: rm h2 on a node with children, and its printed line.
C10_Witness ==
    /\ last = [name |-> "rm", args |-> <<"h2">>]
    /\ Len(calls) = 1
    /\ calls[1].ret = "NotEmpty"
    /\ out = <<"Path h2 is not empty.">>

\* Texts equal to "true" case-insensitively, among those typed.
TrueTexts == {"true", "TRUE", "True"}

\* The mode the specification gives for the two flags of create.
C11_Mode(args) ==
    LET eph == Len(args) >= 3 /\ args[3] \in TrueTexts
        sq == Len(args) >= 4 /\ args[4] \in TrueTexts
    IN CASE ~eph /\ ~sq -> "Persistent"
         [] eph /\ ~sq -> "Ephemeral"
         [] ~eph /\ sq -> "PersistentSequential"
         [] eph /\ sq -> "EphemeralSequential"

\* C11: create with 2 to 4 arguments on a connected shell passes the mode
\* persistent when no flag is true or present, ephemeral when only the
\* ephemeral flag is true, persistent-sequential when only the sequential
\* flag is true, ephemeral-sequential when both are, and always the default
\* open ACL.
C11_CreateMode ==
    (last.name = "create" /\ InWindow /\ preZk # None)
        => /\ Len(calls) = 1
           /\ calls[1].op = "create"
           /\ calls[1].mode = C11_Mode(last.args)
           /\ calls[1].acl = "OPEN_ACL_UNSAFE"

\* C11 witness: create /a x false TRUE passed as persistent-sequential.
C11_Witness ==
    /\ last = [name |-> "create", args |-> <<"/a", "x", "false", "TRUE">>]
    /\ Len(calls) = 1
    /\ calls[1].mode = "PersistentSequential"

\* The integer a version text stands for, -1 when it is no i32.
C12_Version(text) ==
    CASE text = "3" -> 3
      [] text = "0" -> 0
      [] OTHER -> -1

\* C12: set and rm on a connected shell pass the integer value of the
\* version argument when it is present and parses, -1 in every other case;
\* the call is made whatever the text, and nothing is printed for the text.
C12_ExpectedVersion ==
    (last.name \in {"set", "rm"} /\ InWindow /\ preZk # None)
        => LET i == IF last.name = "set" THEN 3 ELSE 2
           IN /\ Len(calls) = 1
              /\ calls[1].op = (IF last.name = "set" THEN "set_data" ELSE "delete")
              /\ calls[1].version =
                    (IF Len(last.args) = i THEN C12_Version(last.args[i]) ELSE -1)
              /\ calls[1].ret = "Ok" => out = <<>>

\* C12 witness: set /a x abc sent with version -1 and nothing printed.
C12_Witness ==
    /\ last = [name |-> "set", args |-> <<"/a", "x", "abc">>]
    /\ Len(calls) = 1
    /\ calls[1].version = -1
    /\ calls[1].ret = "Ok"
    /\ out = <<>>

\* C13: get, ls and exists on a connected shell pass watch = true exactly
\* when a second argument is present and equals "true" case-insensitively;
\* any other text gives false and the call is still made.
C13_WatchFlag ==
    (last.name \in {"get", "ls", "exists"} /\ InWindow /\ preZk # None)
        => /\ Len(calls) = 1
           /\ calls[1].sid = preZk
           /\ calls[1].watch = (Len(last.args) = 2 /\ last.args[2] \in TrueTexts)

\* C13 witness: ls /a True watched, the call answered normally.
C13_Witness ==
    /\ last = [name |-> "ls", args |-> <<"/a", "True">>]
    /\ Len(calls) = 1
    /\ calls[1].watch = TRUE
    /\ calls[1].ret = "Ok"

\* C14: with a hosts parameter, exactly one connect attempt to it has been
\* made when the first prompt is reached and before any line is read;
\* without one, no connect call is made and the first prompt is reached
\* with an empty stored Session.  Nothing is called or printed before.
C14_StartupConnect ==
    /\ pc = "start" => (calls = <<>> /\ out = <<>> /\ zk = None)
    /\ last.name = "<startup>"
        => /\ InLoop
           /\ IF hosts # ""
              THEN /\ Len(calls) = 1
                   /\ calls[1].op = "connect"
                   /\ calls[1].target = hosts
                   /\ (zk # None) <=> (calls[1].ret = "Ok")
              ELSE calls = <<>> /\ zk = None

\* C14 witness: the first prompt written after a failed startup connect to
\* h1, no line read yet.
C14_Witness ==
    /\ pc = "read"
    /\ last.name = "<startup>"
    /\ hosts = "h1"
    /\ Len(calls) = 1
    /\ calls[1].ret # "Ok"

\* C15: a line with no tokens prints nothing, a line whose first token is
\* no command prints exactly "Unknown command: <name>"; neither makes a
\* client call nor changes the stored Session.
C15_EmptyAndUnknown ==
    /\ last.name = "<empty>" => (out = <<>> /\ calls = <<>> /\ zk = preZk /\ InLoop)
    /\ last.name \in UnknownNames
        => /\ out = <<"Unknown command: " \o last.name>>
           /\ calls = <<>>
           /\ zk = preZk
           /\ InLoop

\* C15 witness: foo typed with an argument on a connected shell.
C15_Witness ==
    /\ last = [name |-> "foo", args |-> <<"/a">>]
    /\ preZk # None
    /\ zk = preZk
    /\ out = <<"Unknown command: foo">>

\* C16: a node command with an argument count outside its window prints
\* the arity error and not "Not connected.", connected or not.
C16_ArityBeforeSession ==
    (last.name \in NodeCmds /\ OutOfWindow)
        => /\ out = <<"Wrong number of arguments, expected parameters: "
                        \o ArityTable(last.name).params>>
           /\ \A i \in 1..Len(out) : out[i] # "Not connected."
           /\ calls = <<>>

\* C16 witness: create /a with no Session stored answers with the arity
\* error.
C16_Witness ==
    /\ last = [name |-> "create", args |-> <<"/a">>]
    /\ preZk = None
    /\ out = <<"Wrong number of arguments, expected parameters: <path> <data> [ephemeral] [sequential]">>

\* C17: a step that runs get, set, ls, create, rm, exists, help or man
\* leaves the stored Session, hosts, the session timeout and the default
\* ACL as they were, whatever the client answers; help and man make no
\* client call.
C17_OnlyConnectionCommandsChangeSession ==
    [][(pc = "read" /\ last'.name \in NodeCmds \cup {"help", "man"})
          => /\ zk' = zk
             /\ hosts' = hosts
             /\ session_timeout' = session_timeout
             /\ default_acl' = default_acl
             /\ (last'.name \in {"help", "man"} => calls' = <<>>)]_vars

\* C17 witness: set /a true refused with BadVersion, the Session still
\* stored.
C17_Witness ==
    /\ last = [name |-> "set", args |-> <<"/a", "true">>]
    /\ Len(calls) = 1
    /\ calls[1].ret = "BadVersion"
    /\ zk # None
    /\ zk = preZk

\* C18 as stated: after connect h, Shell.hosts equals h.
C18_HostsIsLastTarget ==
    (last.name = "connect" /\ InWindow) => hosts = last.args[1]

\* C18 amended: no step changes Shell.hosts; after connect h it still holds
\* the value given at process start.
C18_HostsKeepsStartValue == [][hosts' = hosts]_vars

\* C18 witness: connected to h2 by a connect command, hosts still h1.
C18_Witness ==
    /\ last = [name |-> "connect", args |-> <<"h2">>]
    /\ zk # None
    /\ hosts = "h1"

\* C19: close is called at most once on a session, and a node operation is
\* issued on the session the most recent successful connect returned, which
\* has not been closed.
C19_NoUseAfterClose ==
    /\ \A s \in DOMAIN closeCount : closeCount[s] <= 1
    /\ (last.name \in NodeCmds /\ calls # <<>>)
        => /\ Len(calls) = 1
           /\ calls[1].sid # None
           /\ calls[1].sid = nextSid - 1
           /\ closeCount[calls[1].sid] = 0

\* C19 witness: exists /a issued on the second session after the first was
\* closed.
C19_Witness ==
    /\ last = [name |-> "exists", args |-> <<"/a">>]
    /\ Len(calls) = 1
    /\ calls[1].sid = 2
    /\ closeCount[1] = 1
    /\ closeCount[2] = 0

\* C20: a step that delivers a watch notification, between commands or
\* while connect or disconnect waits for the client, only prints: it leaves
\* the stored Session, hosts, the session timeout, the default ACL and the
\* control of the loop as they were and issues no client call.
C20_EventSinkIsPassive ==
    [][watchOut' # watchOut
          => /\ zk' = zk
             /\ hosts' = hosts
             /\ session_timeout' = session_timeout
             /\ default_acl' = default_acl
             /\ calls' = calls
             /\ nextSid' = nextSid
             /\ closeCount' = closeCount
             /\ pc' = pc]_vars

\* C20 witness: an event printed while the first connect of the shell is
\* in flight.
C20_Witness ==
    /\ pc = "connecting"
    /\ nextSid = 1
    /\ watchOut = 1
    /\ zk = None

====
